---- MODULE Spec2Model ----
(***************************************************************************)
(* A model of om4labs/diags/moc/moc.py: the meridional overturning         *)
(* circulation diagnostic.  run() calls read(), calculate(), plot() and    *)
(* the image handler in sequence; each is one action here.                 *)
(*                                                                         *)
(* Conventions.                                                            *)
(*  - arrays are functions over 0..n-1 (numpy's zero-based indices), a     *)
(*    2-D array a[j][i], a 3-D array a[k][j][i];                           *)
(*  - an xarray.DataArray is a record [dims, shape, data], data a function *)
(*    over index tuples <<i0, i1, ...>> (one zero-based index per dim);    *)
(*  - depths are integers in metres, streamfunction values integers in Sv, *)
(*    latitudes integers in half degrees (26.5 degrees north is 53);       *)
(*  - a bathymetry cell is [nan, v]: nan is TRUE for a missing value;      *)
(*  - a Python value whose type matters is a record [type, items].         *)
(* The collaborators (xr.open_mfdataset, horizontal_grid, read_topography, *)
(* generate_basin_masks, date_range, xoverturning.calcmoc, image_handler)  *)
(* are opaque: what they return is part of the input record inp, drawn in  *)
(* the initial state.  The input dataset is well formed: it holds the      *)
(* transport fields and the interface coordinate of each layer dimension.  *)
(***************************************************************************)
EXTENDS Integers, Sequences, FiniteSets, TLC

VARIABLES
    inp,      \* dictArgs, the opened input dataset, the collaborators' results
    pc,       \* where run() is: start, read, calc, plot, done, failed
    backend,  \* matplotlib's backend
    dset,     \* the dataset read() returned (NoDset before)
    otsfn,    \* the DataArray calculate() returned (NoArr before)
    fig,      \* the figure plot() builds: panels drawn, extrema marked
    topo,     \* plot()'s locals atlantic_, indo_pacific_, global_topomask
    calls,    \* the collaborator calls made so far, in order
    err,      \* the exception run() ended with: [type, at]
    ret       \* what run() returned (None before)

vars == <<inp, pc, backend, dset, otsfn, fig, topo, calls, err, ret>>

----------------------------------------------------------------------------
(* Bounds of the model *)

\* rows (yh) of the horizontal grid
NY == 2
\* columns (xh) of the horizontal grid
NX == 2
\* vertical interfaces (one layer has two)
NK == 2
\* time levels of the streamfunction
NT == 1

----------------------------------------------------------------------------
(* numpy / Python helpers *)

Min(a, b) == IF a <= b THEN a ELSE b
Abs(a) == IF a < 0 THEN -a ELSE a

SetMax(S) == CHOOSE m \in S : \A x \in S : x <= m
SetMin(S) == CHOOSE m \in S : \A x \in S : m <= x

Size(a) == Cardinality(DOMAIN a)

\* the grid that is base everywhere but v at [jj][ii]
OneOff(ny, nx, base, jj, ii, v) ==
    [j \in 0..(ny - 1) |-> [i \in 0..(nx - 1) |->
        IF j = jj /\ i = ii THEN v ELSE base]]

None == [type |-> "NoneType", items |-> <<>>]
PyTuple(s) == [type |-> "tuple", items |-> s]
PyList(s) == [type |-> "list", items |-> s]
PyStr(s) == [type |-> "str", items |-> s]

Missing == [nan |-> TRUE, v |-> 0]
Metres(x) == [nan |-> FALSE, v |-> x]

NoDset == [set |-> FALSE]
NoArr == [dims |-> <<>>, shape |-> <<>>, data |-> <<>>]
NoFig == [created |-> FALSE, panels |-> <<>>, marks |-> <<>>, suptitle |-> None]
NoTopo == <<>>
NoErr == [type |-> "none", at |-> "none"]

----------------------------------------------------------------------------
(* read() *)

\* Layer with rho2_l looked for first
Layer_rho2_first(dims) ==
    IF "rho2_l" \in dims THEN "rho2_l"
    ELSE IF "z_l" \in dims THEN "z_l"
    ELSE "None"

\* Layer falling back on z_l instead of None
Layer_default_z(dims) ==
    IF "rho2_l" \in dims /\ "z_l" \notin dims THEN "rho2_l" ELSE "z_l"

\* line 72: the layer dimension, z_l first
Layer(dims) ==
    IF "z_l" \in dims THEN "z_l"
    ELSE IF "rho2_l" \in dims THEN "rho2_l"
    ELSE "None"

\* line 76: the interface coordinate that goes with the layer
Interface(layer) ==
    IF layer = "z_l" THEN "z_i"
    ELSE IF layer = "rho2_l" THEN "rho2_i"
    ELSE "None"

\* line 90: np.where(np.isnan(_depth), 0.0, _depth)
Depth(bathy) ==
    [j \in DOMAIN bathy |-> [i \in DOMAIN bathy[j] |->
        IF bathy[j][i].nan THEN 0 ELSE bathy[j][i].v]]

\* Wet taken from the zeroes of depth instead of the missing values
Wet_from_depth(bathy) ==
    [j \in DOMAIN bathy |-> [i \in DOMAIN bathy[j] |->
        IF bathy[j][i].nan \/ bathy[j][i].v = 0 THEN 0 ELSE 1]]

\* line 100: np.where(np.isnan(_depth), 0.0, 1.0)
Wet(bathy) ==
    [j \in DOMAIN bathy |-> [i \in DOMAIN bathy[j] |->
        IF bathy[j][i].nan THEN 0 ELSE 1]]

\* Zmod without the absolute value of the interface
Zmod_no_fabs(iface, depth) ==
    [k \in DOMAIN iface |-> [j \in DOMAIN depth |-> [i \in DOMAIN depth[j] |->
        -1 * Min(depth[j][i], iface[k])]]]

\* lines 94-96: the interface broadcast over the grid, clipped at the depth,
\* negated, with dims (interface, yh, xh)
Zmod(iface, depth) ==
    [k \in DOMAIN iface |-> [j \in DOMAIN depth |-> [i \in DOMAIN depth[j] |->
        -1 * Min(depth[j][i], Abs(iface[k]))]]]

\* lines 105-109: the two basin masks, stacked along a new leading axis
BasinMasks(masks) ==
    [b \in 0..1 |-> IF b = 0 THEN masks["atlantic_arctic"]
                    ELSE masks["indo_pacific"]]

\* the dataset read() returns (lines 63-115)
ReadDset(i) ==
    LET layer == Layer(i.ds.dims)
        interface == Interface(layer)
        depth == Depth(i.bathy)
    IN  [set |-> TRUE,
         layer |-> layer,
         interface |-> interface,
         iface |-> i.ds.coords[interface],
         yh |-> i.ds.yh,
         geolon |-> i.geolon,
         geolat |-> i.geolat,
         depth |-> depth,
         zmod |-> Zmod(i.ds.coords[interface], depth),
         wet |-> Wet(i.bathy),
         basin_masks |-> BasinMasks(i.masks),
         dates |-> i.dates]

\* the collaborator calls of read(), in order (lines 84, 89, 106, 112)
ReadCalls ==
    << [fn |-> "horizontal_grid", arg |-> <<"t">>],
       [fn |-> "read_topography", arg |-> <<"t">>],
       [fn |-> "generate_basin_masks", arg |-> <<"atlantic_arctic">>],
       [fn |-> "generate_basin_masks", arg |-> <<"indo_pacific">>],
       [fn |-> "date_range", arg |-> <<"ds">>] >>

\* run() lines 303-308: the backend switch, then read()
Read ==
    /\ pc = "start"
    /\ backend' = IF inp.dictArgs.interactive = FALSE THEN "Agg" ELSE backend
    /\ IF Layer(inp.ds.dims) = "None"
       THEN /\ pc' = "failed"
            /\ err' = [type |-> "AssertionError", at |-> "read"]
            /\ UNCHANGED <<dset, calls>>
       ELSE /\ pc' = "read"
            /\ dset' = ReadDset(inp)
            /\ calls' = calls \o ReadCalls
            /\ UNCHANGED err
    /\ UNCHANGED <<inp, otsfn, fig, topo, ret>>

----------------------------------------------------------------------------
(* xarray helpers used by calculate() *)

\* every index tuple of an array of this shape
IndexSet(shape) ==
    IF Len(shape) = 0 THEN {<<>>}
    ELSE {idx \in [1..Len(shape) -> 0..(SetMax({shape[d] : d \in 1..Len(shape)}) - 1)] :
            \A d \in 1..Len(shape) : idx[d] < shape[d]}

\* xr.concat(list, dim=name) of arrays with equal dims: the new dimension
\* leads, entry b of it is list[b]
Concat(list, name) ==
    LET shape == <<Len(list)>> \o list[1].shape
    IN  [dims |-> <<name>> \o list[1].dims,
         shape |-> shape,
         data |-> [idx \in IndexSet(shape) |->
                      list[idx[1] + 1].data[Tail(idx)]]]

\* TransposeFirstTwo leaving the array as concatenated
TransposeFirstTwo_none(a) == a

\* a.transpose(a.dims[1], a.dims[0], ...): the first two dimensions swapped
TransposeFirstTwo(a) ==
    LET n == Len(a.dims)
        Swap(s) == <<s[2], s[1]>> \o SubSeq(s, 3, n)
        shape == Swap(a.shape)
    IN  [dims |-> Swap(a.dims),
         shape |-> shape,
         data |-> [idx \in IndexSet(shape) |-> a.data[Swap(idx)]]]

----------------------------------------------------------------------------
(* calculate() *)

\* Basins with the first two exchanged
Basins_swapped == <<"indopac", "atl-arc", "global">>

\* line 121
Basins == <<"atl-arc", "indopac", "global">>

\* xoverturning.calcmoc(dset, basin, layer, interface): the streamfunction of
\* one basin over (time, interface, yq); its values are the input's
CalcMoc(i, basin, layer, interface) ==
    [dims |-> <<"time", interface, "yq">>,
     shape |-> <<NT, Size(i.ds.coords[interface]), Size(i.geolat)>>,
     data |-> i.psi[basin]]

\* lines 122-127: the calls the list comprehension makes, in order
CalcCalls(d) ==
    [n \in 1..Len(Basins) |->
        [fn |-> "calcmoc", arg |-> <<Basins[n], d.layer, d.interface>>]]

\* lines 122-129
CalculateOtsfn(i, d) ==
    TransposeFirstTwo(
        Concat([n \in 1..Len(Basins) |->
                   CalcMoc(i, Basins[n], d.layer, d.interface)], "basin"))

\* run() line 311
Calculate ==
    /\ pc = "read"
    /\ pc' = "calc"
    /\ otsfn' = CalculateOtsfn(inp, dset)
    /\ calls' = calls \o CalcCalls(dset)
    /\ UNCHANGED <<inp, backend, dset, fig, topo, err, ret>>

----------------------------------------------------------------------------
(* plot() and its helpers *)

\* np.arange(0, 7100, 100) of line 205
ZStart == 0
ZStop == 7100
ZStep == 100
ZLen == (ZStop - ZStart + ZStep - 1) \div ZStep
ZSamples == [r \in 0..(ZLen - 1) |-> ZStart + ZStep * r]

\* a.max(axis=-1) and a.min(axis=-1) of a 2-D array
MaxLastAxis(a) == [j \in DOMAIN a |-> SetMax({a[j][i] : i \in DOMAIN a[j]})]
MinLastAxis(a) == [j \in DOMAIN a |-> SetMin({a[j][i] : i \in DOMAIN a[j]})]

\* _create_topomask's mask=None
NoMask == <<>>

\* CreateTopomask masking the sample at the sea floor too (<= for <)
CreateTopomask_inclusive(depth, yh, mask) ==
    LET restricted ==
            IF mask # <<>>
            THEN [j \in DOMAIN depth |-> [i \in DOMAIN depth[j] |->
                     IF mask[j][i] = 1 THEN depth[j][i] ELSE 0]]
            ELSE depth
        bathy == MaxLastAxis(restricted)
        _z == ZSamples
    IN  [mask |-> [r \in DOMAIN _z |-> [j \in DOMAIN bathy |->
                      [masked |-> _z[r] <= bathy[j],
                       v |-> IF _z[r] <= bathy[j] THEN bathy[j] ELSE 0]]],
         zz |-> _z]

\* lines 200-210.  A cell of the masked array is [masked, v]; the product
\* with 0.0 zeroes the values that are not masked (numpy.ma leaves the data
\* under the mask as it was).
CreateTopomask(depth, yh, mask) ==
    LET restricted ==
            IF mask # NoMask
            THEN [j \in DOMAIN depth |-> [i \in DOMAIN depth[j] |->
                     IF mask[j][i] = 1 THEN depth[j][i] ELSE 0]]
            ELSE depth
        bathy == MaxLastAxis(restricted)
        _z == ZSamples
    IN  [mask |-> [r \in DOMAIN _z |-> [j \in DOMAIN bathy |->
                      [masked |-> _z[r] < bathy[j],
                       v |-> IF _z[r] < bathy[j] THEN bathy[j] ELSE 0]]],
         zz |-> _z]

\* lines 137-147.  ok is FALSE when the selection is empty and np.amax
\* raises ValueError; psi, y and z have the same 2-D shape.
FindExtrema(y, z, psi, min_lat, max_lat, min_depth, mult) ==
    LET all == {<<k, j>> \in (DOMAIN psi) \X (DOMAIN psi[0]) : TRUE}
        sel == {p \in all : /\ y[p[1]][p[2]] >= min_lat
                            /\ y[p[1]][p[2]] <= max_lat
                            /\ z[p[1]][p[2]] < -min_depth}
        psiMax == mult * SetMax({mult * psi[p[1]][p[2]] : p \in sel})
        ncols == Size(psi[0])
        dist == SetMin({Abs(psi[p[1]][p[2]] - psiMax) : p \in all})
        idx == SetMin({p[1] * ncols + p[2] :
                         p \in {q \in all : Abs(psi[q[1]][q[2]] - psiMax) = dist}})
        j == idx \div ncols
        i == idx % ncols
    IN  IF sel = {}
        THEN [ok |-> FALSE]
        ELSE [ok |-> TRUE, j |-> j, i |-> i, y |-> y[j][i], z |-> z[j][i],
              text |-> psi[j][i], psiMax |-> psiMax]

\* DateLabel without the isinstance assertion: any sequence is subscripted
DateLabel_no_assert(dates) ==
    IF dates = None THEN [error |-> "none", datestring |-> None]
    ELSE IF Len(dates.items) < 2
    THEN [error |-> "IndexError", datestring |-> None]
    ELSE [error |-> "none",
          datestring |-> PyStr(<<dates.items[1], dates.items[2]>>)]

\* lines 193-198 of _plotPsi: the label of the date range
DateLabel(dates) ==
    IF dates = None THEN [error |-> "none", datestring |-> None]
    ELSE IF dates.type # "tuple"
    THEN [error |-> "AssertionError", datestring |-> None]
    ELSE IF Len(dates.items) < 2
    THEN [error |-> "IndexError", datestring |-> None]
    ELSE [error |-> "none",
          datestring |-> PyStr(<<dates.items[1], dates.items[2]>>)]

\* the latitudes of the calls of lines 251-289, in half degrees
North == 180
South == -180
Rapid_min_lat == 53
Rapid_max_lat == 54
Atlantic_max_lat == -66
Global_max_lat == -60
Global_min_lat == 50
Deep_min_depth == 2000

\* lines 234-289 in order: each panel's _plotPsi call, then its _findExtrema
\* calls (basin is the second index of psi[0, basin]; min_lat, max_lat,
\* min_depth and mult are the extrema calls' arguments, defaults filled in)
PlotScript ==
    << [op |-> "panel", basin |-> 0, title |-> "a. Atlantic MOC [Sv]",
        topomask |-> "atlantic", dates |-> TRUE, xlim |-> PyTuple(<<-80, 180>>),
        min_lat |-> South, max_lat |-> North, min_depth |-> 0, mult |-> 1],
       [op |-> "extrema", basin |-> 0, title |-> "", topomask |-> "", dates |-> FALSE, xlim |-> None,
        min_lat |-> Rapid_min_lat, max_lat |-> Rapid_max_lat, min_depth |-> 0, mult |-> 1],
       [op |-> "extrema", basin |-> 0, title |-> "", topomask |-> "", dates |-> FALSE, xlim |-> None,
        min_lat |-> South, max_lat |-> Atlantic_max_lat, min_depth |-> 0, mult |-> 1],
       [op |-> "extrema", basin |-> 0, title |-> "", topomask |-> "", dates |-> FALSE, xlim |-> None,
        min_lat |-> South, max_lat |-> North, min_depth |-> 0, mult |-> 1],
       [op |-> "panel", basin |-> 1, title |-> "b. Indo-Pacific MOC [Sv]",
        topomask |-> "indo_pacific", dates |-> FALSE, xlim |-> PyTuple(<<-80, 130>>),
        min_lat |-> South, max_lat |-> North, min_depth |-> 0, mult |-> 1],
       [op |-> "extrema", basin |-> 1, title |-> "", topomask |-> "", dates |-> FALSE, xlim |-> None,
        min_lat |-> South, max_lat |-> North, min_depth |-> Deep_min_depth, mult |-> -1],
       [op |-> "extrema", basin |-> 1, title |-> "", topomask |-> "", dates |-> FALSE, xlim |-> None,
        min_lat |-> South, max_lat |-> North, min_depth |-> 0, mult |-> 1],
       [op |-> "panel", basin |-> 2, title |-> "c. Global MOC [Sv]",
        topomask |-> "global", dates |-> FALSE, xlim |-> None,
        min_lat |-> South, max_lat |-> North, min_depth |-> 0, mult |-> 1],
       [op |-> "extrema", basin |-> 2, title |-> "", topomask |-> "", dates |-> FALSE, xlim |-> None,
        min_lat |-> South, max_lat |-> Global_max_lat, min_depth |-> 0, mult |-> 1],
       [op |-> "extrema", basin |-> 2, title |-> "", topomask |-> "", dates |-> FALSE, xlim |-> None,
        min_lat |-> Global_min_lat, max_lat |-> North, min_depth |-> 0, mult |-> 1],
       [op |-> "extrema", basin |-> 2, title |-> "", topomask |-> "", dates |-> FALSE, xlim |-> None,
        min_lat |-> South, max_lat |-> North, min_depth |-> Deep_min_depth, mult |-> -1] >>

\* psi[0, basin] of lines 236, 256, 274: the first index 0, the second the
\* panel's, the remaining two axes kept
PsiPlot(a, basin) ==
    [k \in 0..(a.shape[3] - 1) |-> [j \in 0..(a.shape[4] - 1) |->
        a.data[<<0, basin, k, j>>]]]

\* lines 213-223: y, z and yy
PlotZ(d) == [k \in DOMAIN d.zmod |-> MinLastAxis(d.zmod[k])]
PlotYY(d) ==
    LET ymax == MaxLastAxis(d.geolat)
        z == PlotZ(d)
    IN  [k \in DOMAIN z |-> [j \in DOMAIN z[k] |-> ymax[j] + 0 * z[k][j]]]

\* lines 227-229
Topomasks(d) ==
    [atlantic |-> CreateTopomask(d.depth, d.yh, d.basin_masks[0]).mask,
     indo_pacific |-> CreateTopomask(d.depth, d.yh, d.basin_masks[1]).mask,
     global |-> CreateTopomask(d.depth, d.yh, NoMask).mask,
     zz |-> CreateTopomask(d.depth, d.yh, NoMask).zz]

\* one step of the script on the figure f: a panel drawn (the axes exist and
\* are drawn before the date label is checked), or an extremum marked
PlotStep(d, a, f, s) ==
    IF s.op = "panel"
    THEN LET lab == DateLabel(IF s.dates THEN d.dates ELSE None)
         IN  [fig |-> [f EXCEPT !.panels = Append(@,
                          [title |-> s.title, basin |-> s.basin,
                           psi |-> PsiPlot(a, s.basin),
                           xlim |-> s.xlim,
                           topomask |-> s.topomask,
                           datestring |-> lab.datestring])],
              error |-> lab.error]
    ELSE LET e == FindExtrema(PlotYY(d), PlotZ(d), PsiPlot(a, s.basin),
                              s.min_lat, s.max_lat, s.min_depth, s.mult)
         IN  IF e.ok
             THEN [fig |-> [f EXCEPT !.marks = Append(@,
                               [basin |-> s.basin, min_lat |-> s.min_lat,
                                max_lat |-> s.max_lat, min_depth |-> s.min_depth,
                                mult |-> s.mult, j |-> e.j, i |-> e.i,
                                y |-> e.y, z |-> e.z, text |-> e.text,
                                psiMax |-> e.psiMax])],
                   error |-> "none"]
             ELSE [fig |-> f, error |-> "ValueError"]

\* the steps from the n-th on, stopping at the first that raises
RECURSIVE PlotFrom(_, _, _, _)
PlotFrom(d, a, f, n) ==
    IF n > Len(PlotScript) THEN [fig |-> f, error |-> "none"]
    ELSE LET r == PlotStep(d, a, f, PlotScript[n])
         IN  IF r.error # "none" THEN r ELSE PlotFrom(d, a, r.fig, n + 1)

\* lines 134-297: the figure and the error plot() ends with
PlotFig(d, a, label) ==
    LET r == PlotFrom(d, a, [NoFig EXCEPT !.created = TRUE], 1)
    IN  IF r.error = "none" /\ label # None
        THEN [r EXCEPT !.fig.suptitle = label]
        ELSE r

\* run() line 314
Plot ==
    /\ pc = "calc"
    /\ LET r == PlotFig(dset, otsfn, inp.dictArgs.label)
       IN  /\ fig' = r.fig
           /\ IF r.error = "none"
              THEN pc' = "plot" /\ UNCHANGED err
              ELSE pc' = "failed" /\ err' = [type |-> r.error, at |-> "plot"]
    /\ topo' = Topomasks(dset)
    /\ calls' = Append(calls, [fn |-> "plot", arg |-> <<>>])
    /\ UNCHANGED <<inp, backend, dset, otsfn, ret>>

\* run() lines 317-320: the image handler's buffers are returned
Output ==
    /\ pc = "plot"
    /\ pc' = "done"
    /\ calls' = Append(calls, [fn |-> "image_handler", arg |-> <<inp.dictArgs.outdir>>])
    /\ ret' = [type |-> "imgbufs", items |-> <<inp.imgbufs>>]
    /\ UNCHANGED <<inp, backend, dset, otsfn, fig, topo, err>>

Next == Read \/ Calculate \/ Plot \/ Output

----------------------------------------------------------------------------
(* The inputs: dictArgs, the opened dataset, what the collaborators return *)

Input(dims, interactive, label, dates, bathy, z_i, lat0, dlat, atl, indo, psi) ==
    [dictArgs |-> [interactive |-> interactive, label |-> label, outdir |-> "out"],
     ds |-> [dims |-> dims,
             coords |-> [z_i |-> z_i,
                         rho2_i |-> [k \in DOMAIN z_i |-> 1028 + 3 * k]],
             yh |-> [j \in 0..(NY - 1) |-> lat0 + dlat * j]],
     geolon |-> [j \in 0..(NY - 1) |-> [i \in 0..(NX - 1) |-> i]],
     geolat |-> [j \in 0..(NY - 1) |-> [i \in 0..(NX - 1) |-> lat0 + dlat * j - i]],
     bathy |-> bathy,
     masks |-> [atlantic_arctic |-> atl, indo_pacific |-> indo],
     dates |-> dates,
     psi |-> psi,
     imgbufs |-> "imgbufs"]

\* the grids that are one value everywhere, or everywhere but in one cell
OneOffGrids(vals) ==
    {OneOff(NY, NX, b, jj, ii, v) :
        b \in vals, v \in vals, jj \in 0..(NY - 1), ii \in 0..(NX - 1)}

\* interfaces k * dz
Levels(dz) == [k \in 0..(NK - 1) |-> k * dz]

\* the basin of column 0 and the basin of the other columns
ColumnMask(first) ==
    [j \in 0..(NY - 1) |-> [i \in 0..(NX - 1) |->
        IF (i = 0) = first THEN 1 ELSE 0]]

PsiShape == <<NT, NK, NY>>
BasinNames == {"atl-arc", "indopac", "global"}
\* a streamfunction that is zero everywhere, and one whose values differ
\* from basin to basin and from point to point
ZeroPsi == [b \in BasinNames |-> [idx \in IndexSet(PsiShape) |-> 0]]
TaggedPsi ==
    [b \in BasinNames |-> [idx \in IndexSet(PsiShape) |->
        (IF b = "atl-arc" THEN 10 ELSE IF b = "indopac" THEN 20 ELSE 30)
        + 3 * idx[1] + idx[2] - 2 * idx[3]]]

DateValues ==
    {None, PyTuple(<<>>), PyTuple(<<"0001">>), PyTuple(<<"0001", "0005">>),
     PyTuple(<<"0001", "0005", "0010">>), PyList(<<"0001", "0005">>),
     PyStr(<<"0", "1">>)}

Started ==
    /\ pc = "start"
    /\ backend = "default"
    /\ dset = NoDset
    /\ otsfn = NoArr
    /\ fig = NoFig
    /\ topo = NoTopo
    /\ calls = <<>>
    /\ err = NoErr
    /\ ret = None

\* run() on any vertical dimensions, date range and label, over a uniform
\* bathymetry
Init ==
    /\ \E dims \in SUBSET {"z_l", "rho2_l"}, interactive \in BOOLEAN,
          label \in {None, PyStr(<<"t">>)}, dates \in DateValues,
          d \in {1000, 3000}, dz \in {1000, 2500},
          lat \in {<<-70, 123>>, <<0, 10>>}, psi \in {ZeroPsi, TaggedPsi} :
          inp = Input(dims, interactive, label, dates,
                      OneOff(NY, NX, Metres(d), 0, 0, Metres(d)), Levels(dz),
                      lat[1], lat[2], ColumnMask(TRUE), ColumnMask(FALSE), psi)
    /\ Started

Spec == Init /\ [][Next]_vars

\* read() on bathymetries with missing and negative cells and on interfaces
\* of either sign
InitRead ==
    /\ \E dims \in {{"z_l"}, {"rho2_l"}, {}},
          bathy \in OneOffGrids({Missing, Metres(-500), Metres(0), Metres(1000)}),
          z_i \in [0..(NK - 1) -> {-2500, 0, 400}] :
          inp = Input(dims, FALSE, None, None, bathy, z_i,
                      -70, 123, ColumnMask(TRUE), ColumnMask(FALSE), ZeroPsi)
    /\ Started

SpecRead == InitRead /\ [][Read]_vars

\* run() on bathymetries and basin masks that differ from cell to cell
InitTopo ==
    /\ \E bathy \in OneOffGrids({Metres(0), Metres(100), Metres(3000)}),
          atl \in OneOffGrids({0, 1}), dz \in {2500} :
          inp = Input({"z_l"}, FALSE, None, PyTuple(<<"0001", "0005">>), bathy,
                      Levels(dz), -70, 123, atl,
                      [j \in DOMAIN atl |-> [i \in DOMAIN atl[j] |-> 1 - atl[j][i]]],
                      TaggedPsi)
    /\ Started

SpecTopo == InitTopo /\ [][Next]_vars

----------------------------------------------------------------------------
(* Properties *)

ReadDone == dset # NoDset
CalculateDone == otsfn # NoArr
PlotRan == topo # NoTopo
PlotReturned == pc \in {"plot", "done"}
VerticalDims == inp.ds.dims \cap {"z_l", "rho2_l"}

\* C1 as stated: after read(), z_l present gives layer z_l and interface z_i,
\* and rho2_l present gives layer rho2_l and interface rho2_i, whatever else
\* is present.
C1_EachDimDecides ==
    ReadDone =>
        /\ "z_l" \in inp.ds.dims => dset.layer = "z_l" /\ dset.interface = "z_i"
        /\ "rho2_l" \in inp.ds.dims =>
               dset.layer = "rho2_l" /\ dset.interface = "rho2_i"

\* C1 amended: z_l is looked for first.  After read(), z_l present gives layer
\* z_l and interface z_i; rho2_l present without z_l gives layer rho2_l and
\* interface rho2_i; the dataset holds that interface's coordinate.
C1_ZLayerFirst ==
    ReadDone =>
        /\ "z_l" \in inp.ds.dims => dset.layer = "z_l" /\ dset.interface = "z_i"
        /\ "rho2_l" \in inp.ds.dims /\ "z_l" \notin inp.ds.dims =>
               dset.layer = "rho2_l" /\ dset.interface = "rho2_i"
        /\ dset.iface = inp.ds.coords[dset.interface]

C1_Witness ==
    /\ ReadDone
    /\ inp.ds.dims = {"z_l", "rho2_l"}
    /\ dset.interface = "z_i"

\* C2: with neither z_l nor rho2_l in the input, run() has either not started
\* or has failed with the assertion of read(), and nothing after the
\* assertion has happened: no collaborator was called, no dataset, no
\* streamfunction, no figure, no topography mask, nothing returned.
C2_NoVerticalDimFailsInRead ==
    VerticalDims = {} /\ pc # "start" =>
        /\ pc = "failed"
        /\ err = [type |-> "AssertionError", at |-> "read"]
        /\ calls = <<>>
        /\ dset = NoDset
        /\ otsfn = NoArr
        /\ fig = NoFig
        /\ topo = NoTopo
        /\ ret = None

C2_Witness ==
    /\ VerticalDims = {}
    /\ pc = "failed"
    /\ err.at = "read"

IsTuple(v) == v.type = "tuple"

\* C3 as stated: once plot() has run on a date range that is supplied and is
\* not a tuple of two elements, plot() has raised and returned no figure.
C3_OnlyPairsAccepted ==
    (/\ PlotRan
     /\ dset.dates # None
     /\ ~(IsTuple(dset.dates) /\ Len(dset.dates.items) = 2)) =>
        /\ pc = "failed"
        /\ err.at = "plot"
        /\ ret = None

\* C3 amended: the check is of the type and, through the two subscripts, of
\* at least two elements.  A date range that is not a tuple makes plot() raise
\* AssertionError, a tuple of fewer than two elements IndexError, both while
\* the first panel is drawn (its axes exist, nothing is marked) and no figure
\* is returned; a tuple of two or more elements is accepted and its first two
\* elements make the label.
C3_TupleOfAtLeastTwo ==
    PlotRan /\ dset.dates # None =>
        /\ ~IsTuple(dset.dates) =>
               /\ pc = "failed"
               /\ err = [type |-> "AssertionError", at |-> "plot"]
               /\ Len(fig.panels) = 1 /\ fig.marks = <<>> /\ ret = None
        /\ IsTuple(dset.dates) /\ Len(dset.dates.items) < 2 =>
               /\ pc = "failed"
               /\ err = [type |-> "IndexError", at |-> "plot"]
               /\ Len(fig.panels) = 1 /\ fig.marks = <<>> /\ ret = None
        /\ IsTuple(dset.dates) /\ Len(dset.dates.items) >= 2 =>
               /\ err.type \notin {"AssertionError", "IndexError"}
               /\ fig.panels[1].datestring =
                      PyStr(<<dset.dates.items[1], dset.dates.items[2]>>)

C3_Witness ==
    /\ PlotRan
    /\ dset.dates = PyList(<<"0001", "0005">>)
    /\ pc = "failed"
    /\ err.type = "AssertionError"

\* C4 as stated: the array calculate() returns has the basin axis as
\* dimension 0 and the collaborator result's leading dimension as dimension 1.
C4_BasinLeads ==
    CalculateDone =>
        /\ otsfn.dims[1] = "basin"
        /\ otsfn.dims[2] = "time"

\* C4 amended: the array calculate() returns has the collaborator result's
\* leading dimension (time) as dimension 0 and the basin axis as dimension 1,
\* and its entry [t, b, k, j] is entry [t, k, j] of the result for basin b; so
\* the renderer's first index, 0, selects the first time and its second index
\* the basin.
C4_BasinIsSecondAxis ==
    CalculateDone =>
        /\ otsfn.dims = <<"time", "basin", dset.interface, "yq">>
        /\ otsfn.shape = <<NT, 3, Size(dset.iface), Size(dset.geolat)>>
        /\ \A idx \in IndexSet(otsfn.shape) :
               otsfn.data[idx] =
                   inp.psi[<<"atl-arc", "indopac", "global">>[idx[2] + 1]]
                          [<<idx[1], idx[3], idx[4]>>]

C4_Witness ==
    /\ CalculateDone
    /\ inp.psi = TaggedPsi
    /\ otsfn.dims[2] = "basin"
    /\ otsfn.data[<<0, 1, 0, 0>>] # otsfn.data[<<0, 0, 0, 0>>]

\* the scenario of C5: uniform 1000 m bathymetry, one layer, zero
\* streamfunction, a recognized layer and a well-formed date range
C5_Scenario ==
    /\ \A j \in DOMAIN inp.bathy : \A i \in DOMAIN inp.bathy[j] :
           inp.bathy[j][i] = Metres(1000)
    /\ Size(inp.ds.coords.z_i) = 2
    /\ inp.psi = ZeroPsi
    /\ Layer(inp.ds.dims) = "z_l"
    /\ inp.dates \in {None, PyTuple(<<"0001", "0005">>)}

\* C5: in the scenario run() never fails, and the figure plot() returns has
\* three panels and the eight extrema marked.
C5_ScenarioCompletes ==
    C5_Scenario =>
        /\ pc # "failed"
        /\ PlotReturned => Len(fig.panels) = 3 /\ Len(fig.marks) = 8

\* the region an extrema call selects from, and the extremum over it
MarkRegion(m) ==
    LET y == PlotYY(dset)
        z == PlotZ(dset)
    IN  {p \in (DOMAIN z) \X (DOMAIN z[0]) :
            /\ y[p[1]][p[2]] >= m.min_lat
            /\ y[p[1]][p[2]] <= m.max_lat
            /\ z[p[1]][p[2]] < -m.min_depth}
MarkExtremum(m) ==
    LET psi == PsiPlot(otsfn, m.basin)
        vals == {psi[p[1]][p[2]] : p \in MarkRegion(m)}
    IN  IF m.mult = 1 THEN SetMax(vals) ELSE SetMin(vals)

\* C9: every point marked lies in the latitude band and below the minimum
\* depth of its call, and its label is the extremum over that region.
C9_MarkInsideRegion ==
    \A n \in 1..Len(fig.marks) :
        LET m == fig.marks[n]
        IN  /\ m.y >= m.min_lat /\ m.y <= m.max_lat
            /\ m.z < -m.min_depth
            /\ m.text = MarkExtremum(m)


Finite(c) == ~c.nan

\* C6: after read(), at every cell whose bathymetry is finite and not
\* negative and for every interface k (of either sign),
\* zmod[k,j,i] = -min(depth[j,i], |interface[k]|), |zmod[k,j,i]| <= depth[j,i]
\* and zmod[k,j,i] <= 0.
C6_ZmodClipped ==
    ReadDone =>
        \A k \in DOMAIN dset.zmod : \A j \in DOMAIN inp.bathy :
            \A i \in DOMAIN inp.bathy[j] :
                Finite(inp.bathy[j][i]) /\ inp.bathy[j][i].v >= 0 =>
                    /\ dset.zmod[k][j][i] =
                           -Min(dset.depth[j][i],
                                Abs(inp.ds.coords[dset.interface][k]))
                    /\ Abs(dset.zmod[k][j][i]) <= dset.depth[j][i]
                    /\ dset.zmod[k][j][i] <= 0

\* a negative interface above a sea floor it would pierce, and a positive one
C6_Witness ==
    /\ ReadDone
    /\ \E k \in DOMAIN dset.zmod : \E j \in DOMAIN inp.bathy :
           \E i \in DOMAIN inp.bathy[j] :
               /\ inp.bathy[j][i] = Metres(1000)
               /\ dset.iface[k] = -2500
               /\ dset.zmod[k][j][i] = -1000
    /\ \E k \in DOMAIN dset.zmod : dset.iface[k] = 400 /\ dset.zmod[k][0][0] = -400

\* C7: after read(), wet is 0 exactly at the cells whose bathymetry is
\* missing and 1 elsewhere; depth is 0 where wet is 0 and the bathymetry
\* itself where it is present.
C7_WetDepthComplementary ==
    ReadDone =>
        \A j \in DOMAIN inp.bathy : \A i \in DOMAIN inp.bathy[j] :
            /\ dset.wet[j][i] = 0 <=> inp.bathy[j][i].nan
            /\ dset.wet[j][i] \in {0, 1}
            /\ dset.wet[j][i] = 0 => dset.depth[j][i] = 0
            /\ Finite(inp.bathy[j][i]) => dset.depth[j][i] = inp.bathy[j][i].v

\* a missing cell beside a present one of depth zero
C7_Witness ==
    /\ ReadDone
    /\ \E j \in DOMAIN inp.bathy : \E i \in DOMAIN inp.bathy[j] :
           inp.bathy[j][i] = Missing /\ dset.wet[j][i] = 0
    /\ \E j \in DOMAIN inp.bathy : \E i \in DOMAIN inp.bathy[j] :
           inp.bathy[j][i] = Metres(0) /\ dset.wet[j][i] = 1

CalcmocCalls == SelectSeq(calls, LAMBDA c : c.fn = "calcmoc")
PanelTitles ==
    <<"a. Atlantic MOC [Sv]", "b. Indo-Pacific MOC [Sv]", "c. Global MOC [Sv]">>

\* C8: once calculate() has run, the overturning calculator has been called
\* exactly three times, for atl-arc, indopac and global in that order, each
\* time with the dataset's layer and interface names; the result has three
\* entries along its basin axis; and the n-th panel drawn (Atlantic,
\* Indo-Pacific, Global) shows the first time level of the n-th call's result.
C8_BasinOrder ==
    CalculateDone =>
        /\ CalcmocCalls =
               << [fn |-> "calcmoc", arg |-> <<"atl-arc", dset.layer, dset.interface>>],
                  [fn |-> "calcmoc", arg |-> <<"indopac", dset.layer, dset.interface>>],
                  [fn |-> "calcmoc", arg |-> <<"global", dset.layer, dset.interface>>] >>
        /\ \E d \in 1..Len(otsfn.dims) :
               otsfn.dims[d] = "basin" /\ otsfn.shape[d] = 3
        /\ \A n \in 1..Len(fig.panels) :
               /\ fig.panels[n].title = PanelTitles[n]
               /\ \A k \in DOMAIN dset.iface : \A j \in DOMAIN dset.geolat :
                      fig.panels[n].psi[k][j] =
                          inp.psi[<<"atl-arc", "indopac", "global">>[n]][<<0, k, j>>]

C8_Witness ==
    /\ pc = "done"
    /\ Len(fig.panels) = 3
    /\ inp.psi = TaggedPsi
    /\ fig.panels[1].psi # fig.panels[2].psi
    /\ fig.panels[2].psi # fig.panels[3].psi

\* the bathymetry of column j for a mask: the maximum over x of the depth
\* restricted to the basin's cells (no restriction for the global mask)
ColumnBathy(name, j) ==
    LET in(i) == CASE name = "atlantic" -> dset.basin_masks[0][j][i] = 1
                   [] name = "indo_pacific" -> dset.basin_masks[1][j][i] = 1
                   [] OTHER -> TRUE
    IN  SetMax({IF in(i) THEN dset.depth[j][i] ELSE 0 : i \in DOMAIN dset.depth[j]})

TopoNames == {"atlantic", "indo_pacific", "global"}

\* the shape of every mask: 71 rows, the depths 0, 100, ..., 7000, and one
\* column per y row
TopoShape ==
    /\ Size(topo.zz) = 71
    /\ \A r \in DOMAIN topo.zz : topo.zz[r] = 100 * r
    /\ \A name \in TopoNames :
           /\ DOMAIN topo[name] = DOMAIN topo.zz
           /\ \A r \in DOMAIN topo.zz : DOMAIN topo[name][r] = DOMAIN dset.depth

\* C10 as stated: a cell is masked exactly when its sampled depth exceeds the
\* bathymetry of its column, and every value is 0.
C10_MaskedBelowSeaFloor ==
    PlotRan =>
        /\ TopoShape
        /\ \A name \in TopoNames : \A r \in DOMAIN topo.zz :
               \A j \in DOMAIN dset.depth :
                   /\ topo[name][r][j].masked <=> topo.zz[r] > ColumnBathy(name, j)
                   /\ topo[name][r][j].v = 0

\* C10 amended: the mask has 71 rows (depths 0, 100, ..., 7000) and one column
\* per y row; the bathymetry of a column is the maximum over x of the depth
\* restricted to the basin (unrestricted for Global); a cell is masked exactly
\* when its sampled depth is less than the bathymetry of its column, so the
\* cells left unmasked, the ones shaded, are those at or below the sea floor;
\* and every value that is not masked is 0.
C10_MaskedAboveSeaFloor ==
    PlotRan =>
        /\ TopoShape
        /\ \A name \in TopoNames : \A r \in DOMAIN topo.zz :
               \A j \in DOMAIN dset.depth :
                   /\ topo[name][r][j].masked <=> topo.zz[r] < ColumnBathy(name, j)
                   /\ ~topo[name][r][j].masked => topo[name][r][j].v = 0

\* a column whose Atlantic bathymetry is 100 m under a global one of 3000 m:
\* the sample at 100 m is shaded in the Atlantic mask and masked in the global
C10_Witness ==
    /\ PlotRan
    /\ \E j \in DOMAIN dset.depth :
           /\ ColumnBathy("atlantic", j) = 100
           /\ ColumnBathy("global", j) = 3000
           /\ topo.atlantic[0][j].masked
           /\ ~topo.atlantic[1][j].masked
           /\ topo.global[1][j].masked

====
